---- MODULE Spec2Model ----
(***************************************************************************)
(* Signaling server (src/signaling_server/server.py): the ConnectionManager *)
(* registry/presence state and the websocket_endpoint dispatch loop.       *)
(*                                                                         *)
(* Every coroutine of the server runs on one asyncio event loop, so code   *)
(* between two `await`s is atomic.  A handler is therefore modelled as a   *)
(* chain of steps, one step for the code that runs up to and including one *)
(* awaited send; pc[c] is the position of connection c's endpoint task.   *)
(* broadcast() (a loop of awaited sends) is one step.                      *)
(*                                                                         *)
(* Under Spec (serial = TRUE) a message is dispatched only when no handler  *)
(* is in flight: every awaited send completes before the next receive_json *)
(* returns.                                                                *)
(***************************************************************************)
EXTENDS Integers, Sequences, FiniteSets, TLC

\* ---------------------------------------------------------------- bounds
MaxNames == 2
MaxConns == 2
\* receive_json completions (messages and disconnects) in one run
MaxMsgs == 4

NamePool == <<"alice", "bob", "carol", "dave", "erin">>
ConnPool == <<"ws1", "ws2", "ws3", "ws4", "ws5">>

\* usernames a client may put in a `name` field
Names == {NamePool[i] : i \in 1..MaxNames}
\* WebSocket objects accepted by the endpoint
Conns == {ConnPool[i] : i \in 1..MaxConns}

\* ---------------------------------------------------------------- values
\* dict.get(...) found nothing / the key is not in the dict
Absent == "<absent>"
\* Python None stored in connection.otherName
None == "<None>"
\* an attribute that was never assigned on the WebSocket object
Unset == "<unset>"
\* a key the JSON envelope does not carry
Missing == "<missing>"

CONNECTED == "CONNECTED"
DISCONNECTED == "DISCONNECTED"

\* the ten `case` labels of the dispatch
ClientTypes ==
    {"login", "offer", "answer", "candidate", "leave", "busy",
     "want_to_call", "ready", "quit", "clientping"}

\* a type string that matches no case label
UnknownType == "bogus"

\* opaque negotiation payloads (offer / answer / candidate bodies)
Payloads == {"sdp"}

\* the decoded JSON objects receive_json may return
Envelopes ==
    [type : {"login", "leave", "busy", "want_to_call", "ready", "quit"},
     name : Names \cup {Missing}, payload : {Missing}]
    \cup
    [type : {"offer", "answer", "candidate"},
     name : Names \cup {Missing}, payload : Payloads \cup {Missing}]
    \cup
    [type : {"clientping", UnknownType, Missing},
     name : {Missing}, payload : {Missing}]

VARIABLES
    active_connections,  \* ConnectionManager.active_connections: username -> WebSocket
    online_users,        \* ConnectionManager.online_users: username -> status
    name,                \* connection.name of each WebSocket
    otherName,           \* connection.otherName of each WebSocket
    client_state,        \* connection.client_state of each WebSocket
    pc,                  \* where each connection's websocket_endpoint task stands
    username,            \* the handler's `username` argument while it is suspended
    conn,                \* the handler's local `conn` while it is suspended
    sent,                \* messages delivered since the latest dispatch
    dispatched,          \* how many times receive_json has completed so far
    serial               \* TRUE: every awaited send completes before another
                         \* connection's receive_json returns

vars ==
    <<active_connections, online_users, name, otherName, client_state, pc,
      username, conn, sent, dispatched, serial>>

registry == <<active_connections, online_users, name, otherName>>

\* ---------------------------------------------------------------- helpers
\* no handler is suspended in the middle of an operation
Quiescent == \A c \in Conns : pc[c] \in {"recv", "closed", "crashed"}

\* the endpoint task is parked in `await connection.receive_json()` and the
\* event loop may hand it its next event
AtReceive(c) ==
    /\ pc[c] = "recv"
    /\ serial => Quiescent

\* ConnectionManager.get_user_status
get_user_status(u) == online_users[u]

\* what send_message appends to the delivered log: nothing unless CONNECTED
Delivered(cs, by, to, msg) ==
    IF cs[to] = CONNECTED THEN <<[by |-> by, to |-> to, msg |-> msg]>> ELSE <<>>

send_message(by, to, msg) == Delivered(client_state, by, to, msg)

\* broadcast: one send per value of active_connections
RECURSIVE BroadcastFrom(_, _, _, _)
BroadcastFrom(i, ac, by, msg) ==
    IF i > MaxNames THEN <<>>
    ELSE (IF ac[NamePool[i]] = Absent THEN <<>>
          ELSE send_message(by, ac[NamePool[i]], msg))
         \o BroadcastFrom(i + 1, ac, by, msg)

broadcast(ac, by, msg) == BroadcastFrom(1, ac, by, msg)

\* update_users_list, with the maps as they are when it runs
update_users_list(ac, ou, by) ==
    broadcast(ac, by,
              [type |-> "server_userlist",
               name |-> {<<u, ou[u]>> : u \in {n \in Names : ou[n] # Absent}}])

\* ---------------------------------------------------------------- Init
Init ==
    /\ active_connections = [u \in Names |-> Absent]
    /\ online_users = [u \in Names |-> Absent]
    /\ name = [c \in Conns |-> Unset]
    /\ otherName = [c \in Conns |-> Unset]
    /\ client_state = [c \in Conns |-> CONNECTED]
    /\ pc = [c \in Conns |-> "recv"]
    /\ username = [c \in Conns |-> Missing]
    /\ conn = [c \in Conns |-> Absent]
    /\ sent = <<>>
    /\ dispatched = 0
    /\ serial = TRUE

\* the handler returned: the task is back at receive_json, its locals are gone
Return(c) ==
    /\ pc' = [pc EXCEPT ![c] = "recv"]
    /\ username' = [username EXCEPT ![c] = Missing]
    /\ conn' = [conn EXCEPT ![c] = Absent]
    /\ UNCHANGED client_state

\* the handler suspends in an awaited send and resumes at `label`
Suspend(c, label, u, k) ==
    /\ pc' = [pc EXCEPT ![c] = label]
    /\ username' = [username EXCEPT ![c] = u]
    /\ conn' = [conn EXCEPT ![c] = k]
    /\ UNCHANGED client_state

\* an exception other than WebSocketDisconnect leaves websocket_endpoint: the
\* task ends, manager.disconnect is not called, and the server closes the socket
Raise(c) ==
    /\ pc' = [pc EXCEPT ![c] = "crashed"]
    /\ username' = [username EXCEPT ![c] = Missing]
    /\ conn' = [conn EXCEPT ![c] = Absent]
    /\ client_state' = [client_state EXCEPT ![c] = DISCONNECTED]

\* ---------------------------------------------------------------- dispatch
\* data['name'] / data['offer'] / data['answer'] / data['candidate'] raise
\* KeyError while the call's arguments are evaluated
KeyError(d) ==
    \/ d.name = Missing
    \/ d.type \in {"offer", "answer", "candidate"} /\ d.payload = Missing

\* receive_json completes on connection c: it returns the next message, or
\* raises WebSocketDisconnect
Take(c) ==
    /\ dispatched < MaxMsgs
    /\ AtReceive(c)
    /\ dispatched' = dispatched + 1
    /\ UNCHANGED serial

\* a suspended handler of connection c resumes at `label`
At(c, label) ==
    /\ pc[c] = label
    /\ UNCHANGED <<dispatched, serial>>

\* a known type whose required field is missing: KeyError leaves the loop
DispatchKeyError(c, d) ==
    /\ d.type \in ClientTypes \ {"clientping"}
    /\ KeyError(d)
    /\ Take(c)
    /\ sent' = <<>>
    /\ Raise(c)
    /\ UNCHANGED registry

\* the handler of message d may start on connection c
Dispatch(c, d, type) ==
    /\ d.type = type
    /\ ~KeyError(d)
    /\ Take(c)

\* ---------------------------------------------------------------- login
\* a duplicate check that consults the presence map instead of the registry
NameTakenInPresence(u) == online_users[u] # Absent

\* a duplicate check that sees a registration only once the handler that made
\* it has returned (as if the name were stored after the awaited reply)
NameTakenOnceSettled(u) ==
    active_connections[u] # Absent /\ pc[active_connections[u]] = "recv"

\* `username in self.active_connections`
NameTaken(u) == active_connections[u] # Absent

\* register_user_connection: the three assignments
RegisterConnection(u, c) == [active_connections EXCEPT ![u] = c]
RegisterName(u, c) == [name EXCEPT ![c] = u]
RegisterOtherName(u, c) == [otherName EXCEPT ![c] = None]

\* update_user_status
update_user_status(ou, u, status) == [ou EXCEPT ![u] = status]

LoginUser(c, d) ==
    /\ Dispatch(c, d, "login")
    /\ IF NameTaken(d.name)
       THEN /\ sent' = send_message(c, c, [type |-> "server_login", success |-> FALSE])
            /\ Return(c)
            /\ UNCHANGED registry
       ELSE /\ active_connections' = RegisterConnection(d.name, c)
            /\ name' = RegisterName(d.name, c)
            /\ otherName' = RegisterOtherName(d.name, c)
            /\ online_users' = update_user_status(online_users, d.name, "online")
            /\ sent' = send_message(c, c, [type |-> "server_login", success |-> TRUE])
            /\ Suspend(c, "update_users_list", d.name, Absent)

\* the trailing `await self.update_users_list()` of login_user and handle_ready
UpdateUsersList(c) ==
    /\ At(c, "update_users_list")
    /\ sent' = sent \o update_users_list(active_connections, online_users, c)
    /\ Return(c)
    /\ UNCHANGED registry

\* ---------------------------------------------------------------- relays
\* a slip that tests the sender's peer link instead of the target's
OfferTargetFreeOfSender(c, k) == otherName[c] = None

\* send_offer, line 83: `conn.otherName == None`
OfferTargetFree(c, k) == otherName[k] = None

SendOffer(c, d) ==
    /\ Dispatch(c, d, "offer")
    /\ UNCHANGED registry
    /\ LET k == active_connections[d.name] IN
       IF k = Absent
       THEN /\ sent' = send_message(c, c, [type |-> "server_nouser", success |-> FALSE])
            /\ Return(c)
       ELSE IF OfferTargetFree(c, k)
       THEN IF name[c] = Unset
            THEN \* AttributeError: connection.name
                 /\ sent' = <<>>
                 /\ Raise(c)
            ELSE /\ sent' = send_message(c, k, [type |-> "server_offer",
                                                offer |-> d.payload, name |-> name[c]])
                 /\ Return(c)
       ELSE /\ sent' = send_message(c, c, [type |-> "server_alreadyinroom",
                                           success |-> TRUE, name |-> d.name])
            /\ Return(c)

SendAnswer(c, d) ==
    /\ Dispatch(c, d, "answer")
    /\ UNCHANGED registry
    /\ LET k == active_connections[d.name] IN
       sent' = IF k # Absent
               THEN send_message(c, k, [type |-> "server_answer", answer |-> d.payload])
               ELSE <<>>
    /\ Return(c)

\* a gate that forgets the pairing test
CandidateDueIfRegistered(k) == k # Absent

\* send_candidate_request, line 99: `conn and conn.otherName != None`
CandidateDue(k) == k # Absent /\ otherName[k] # None

SendCandidateRequest(c, d) ==
    /\ Dispatch(c, d, "candidate")
    /\ UNCHANGED registry
    /\ LET k == active_connections[d.name] IN
       sent' = IF CandidateDue(k)
               THEN send_message(c, k, [type |-> "server_candidate",
                                        candidate |-> d.payload])
               ELSE <<>>
    /\ Return(c)

Busy(c, d) ==
    /\ Dispatch(c, d, "busy")
    /\ UNCHANGED registry
    /\ LET k == active_connections[d.name] IN
       sent' = IF k # Absent
               THEN send_message(c, k, [type |-> "server_busyuser"])
               ELSE <<>>
    /\ Return(c)

\* a test that looks at the peer link only
InRoomByPeerLink(k, u) == otherName[k] # None

\* want_to_call, line 127: `conn.otherName != None and get_user_status(username) == 'busy'`
InRoom(k, u) == otherName[k] # None /\ get_user_status(u) = "busy"

WantToCall(c, d) ==
    /\ Dispatch(c, d, "want_to_call")
    /\ UNCHANGED registry
    /\ LET k == active_connections[d.name] IN
       sent' = IF k # Absent
               THEN IF InRoom(k, d.name)
                    THEN send_message(c, c, [type |-> "server_alreadyinroom",
                                             success |-> TRUE, name |-> d.name])
                    ELSE send_message(c, c, [type |-> "server_alreadyinroom",
                                             success |-> FALSE, name |-> d.name])
               ELSE send_message(c, c, [type |-> "server_nouser", success |-> FALSE])
    /\ Return(c)

ClientPing(c, d) ==
    /\ d.type = "clientping"
    /\ Take(c)
    /\ UNCHANGED registry
    /\ sent' = send_message(c, c, [type |-> "server_pong", name |-> "pong"])
    /\ Return(c)

\* `case _`: "Unrecognized `command`: " + a_type is a TypeError unless a_type is a str
Unrecognized(c, d) ==
    /\ d.type \notin ClientTypes
    /\ Take(c)
    /\ UNCHANGED registry
    /\ IF d.type = Missing
       THEN /\ sent' = <<>>
            /\ Raise(c)
       ELSE /\ sent' = send_message(c, c, [type |-> "server_error",
                                           message |-> "Unrecognized command: " \o d.type])
            /\ Return(c)

\* ---------------------------------------------------------------- leave
\* leave, lines 104-107: look the target up and notify it
Leave(c, d) ==
    /\ Dispatch(c, d, "leave")
    /\ UNCHANGED registry
    /\ LET k == active_connections[d.name] IN
       IF k = Absent
       THEN /\ sent' = <<>>
            /\ Return(c)
       ELSE /\ sent' = send_message(c, k, [type |-> "server_userwanttoleave"])
            /\ Suspend(c, "leave_notify_self", d.name, k)

\* leave, line 108: notify the sender
LeaveNotifySelf(c) ==
    /\ At(c, "leave_notify_self")
    /\ sent' = sent \o send_message(c, c, [type |-> "server_userwanttoleave"])
    /\ pc' = [pc EXCEPT ![c] = "leave_commit"]
    /\ UNCHANGED <<registry, client_state, username, conn>>

\* leave, lines 109-110: both statuses back to online
LeaveStatus(u, c) ==
    update_user_status(update_user_status(online_users, u, "online"), name[c], "online")

\* a leave that clears the target's peer link and forgets the sender's
LeaveOtherNameOfTarget(k, c) == [otherName EXCEPT ![k] = None]

\* leave, lines 113-114: both peer links cleared
LeaveOtherName(k, c) == [otherName EXCEPT ![k] = None, ![c] = None]

\* leave, lines 109-116: commit and broadcast
LeaveCommit(c) ==
    /\ At(c, "leave_commit")
    /\ UNCHANGED <<active_connections, name>>
    /\ IF name[c] = Unset
       THEN \* line 109 ran, then AttributeError: connection.name on line 110
            /\ online_users' = update_user_status(online_users, username[c], "online")
            /\ UNCHANGED <<otherName, sent>>
            /\ Raise(c)
       ELSE /\ online_users' = LeaveStatus(username[c], c)
            /\ otherName' = LeaveOtherName(conn[c], c)
            /\ sent' = sent \o update_users_list(active_connections,
                                                 LeaveStatus(username[c], c), c)
            /\ Return(c)

\* ---------------------------------------------------------------- ready
\* handle_ready, lines 141-142: each side records the other
ReadyOtherName(u, k, c) == [otherName EXCEPT ![c] = u, ![k] = name[c]]

\* handle_ready, lines 143-144: both statuses busy
ReadyStatus(u, c) ==
    update_user_status(update_user_status(online_users, u, "busy"), name[c], "busy")

\* handle_ready, line 147: what the target is told
ReadyNoticeToPeer(c) ==
    [type |-> "server_userready", success |-> TRUE, peername |-> name[c]]

\* handle_ready, line 148: what the sender is told
ReadyNoticeToSelf(k) ==
    [type |-> "server_userready", success |-> TRUE, peername |-> name[k]]

\* handle_ready, lines 138-147: look up, pair, notify the target
HandleReady(c, d) ==
    /\ Dispatch(c, d, "ready")
    /\ UNCHANGED <<active_connections, name>>
    /\ LET k == active_connections[d.name] IN
       IF k = Absent
       THEN /\ sent' = <<>>
            /\ UNCHANGED <<online_users, otherName>>
            /\ Return(c)
       ELSE IF name[c] = Unset
       THEN \* line 141 ran, then AttributeError: connection.name on line 142
            /\ otherName' = [otherName EXCEPT ![c] = d.name]
            /\ sent' = <<>>
            /\ UNCHANGED online_users
            /\ Raise(c)
       ELSE /\ otherName' = ReadyOtherName(d.name, k, c)
            /\ online_users' = ReadyStatus(d.name, c)
            /\ sent' = send_message(c, k, ReadyNoticeToPeer(c))
            /\ Suspend(c, "ready_notify_self", d.name, k)

\* handle_ready, line 148: notify the sender, conn.name read now
ReadyNotifySelf(c) ==
    /\ At(c, "ready_notify_self")
    /\ sent' = sent \o send_message(c, c, ReadyNoticeToSelf(conn[c]))
    /\ pc' = [pc EXCEPT ![c] = "update_users_list"]
    /\ UNCHANGED <<registry, client_state, username, conn>>

\* ---------------------------------------------------------------- quit
\* dict.pop(key, None)
DictPop(dict, key) == [k \in DOMAIN dict |-> IF k = key THEN Absent ELSE dict[k]]

\* handle_quit, line 153: the registry entry popped is the sender's connection.name
QuitRegistryKey(c, u) == name[c]

\* handle_quit, line 154: the presence entry popped is the message's name field
QuitPresenceKey(c, u) == u

HandleQuit(c, d) ==
    /\ Dispatch(c, d, "quit")
    /\ UNCHANGED <<name, otherName>>
    /\ IF name[c] = Unset
       THEN \* AttributeError: connection.name on line 153
            /\ sent' = <<>>
            /\ UNCHANGED <<active_connections, online_users>>
            /\ Raise(c)
       ELSE /\ active_connections' = DictPop(active_connections, QuitRegistryKey(c, d.name))
            /\ online_users' = DictPop(online_users, QuitPresenceKey(c, d.name))
            /\ sent' = update_users_list(
                           DictPop(active_connections, QuitRegistryKey(c, d.name)),
                           DictPop(online_users, QuitPresenceKey(c, d.name)), c)
            /\ Return(c)

\* ---------------------------------------------------------------- disconnect
\* ConnectionManager.disconnect: pops the key `connection` (the WebSocket object)
disconnect(c) == DictPop(active_connections, c)

\* receive_json raises WebSocketDisconnect; the except clause runs and the task ends
Disconnect(c) ==
    /\ Take(c)
    /\ client_state' = [client_state EXCEPT ![c] = DISCONNECTED]
    /\ active_connections' = disconnect(c)
    /\ pc' = [pc EXCEPT ![c] = "closed"]
    /\ sent' = <<>>
    /\ UNCHANGED <<online_users, name, otherName, username, conn>>

\* ---------------------------------------------------------------- Next
\* one message is taken off connection c and its handler starts
Receive(c, d) ==
    \/ DispatchKeyError(c, d)
    \/ LoginUser(c, d)
    \/ SendOffer(c, d)
    \/ SendAnswer(c, d)
    \/ SendCandidateRequest(c, d)
    \/ Leave(c, d)
    \/ Busy(c, d)
    \/ WantToCall(c, d)
    \/ HandleReady(c, d)
    \/ HandleQuit(c, d)
    \/ ClientPing(c, d)
    \/ Unrecognized(c, d)

\* a suspended handler resumes after its awaited send
Resume(c) ==
    \/ UpdateUsersList(c)
    \/ LeaveNotifySelf(c)
    \/ LeaveCommit(c)
    \/ ReadyNotifySelf(c)

\* the envelopes a `case` label matches
Typed(type) == {d \in Envelopes : d.type = type}

LoginEnvelopes == Typed("login")
OfferEnvelopes == Typed("offer")
AnswerEnvelopes == Typed("answer")
CandidateEnvelopes == Typed("candidate")
LeaveEnvelopes == Typed("leave")
BusyEnvelopes == Typed("busy")
WantToCallEnvelopes == Typed("want_to_call")
ReadyEnvelopes == Typed("ready")
QuitEnvelopes == Typed("quit")
PingEnvelopes == Typed("clientping")
\* the envelopes only `case _` matches
OtherEnvelopes == {d \in Envelopes : d.type \notin ClientTypes}
\* the envelopes whose handler call raises KeyError
KeyErrorEnvelopes ==
    {d \in Envelopes : d.type \in ClientTypes \ {"clientping"} /\ KeyError(d)}

Next ==
    \/ \E c \in Conns : \E d \in KeyErrorEnvelopes : DispatchKeyError(c, d)
    \/ \E c \in Conns : \E d \in LoginEnvelopes : LoginUser(c, d)
    \/ \E c \in Conns : \E d \in OfferEnvelopes : SendOffer(c, d)
    \/ \E c \in Conns : \E d \in AnswerEnvelopes : SendAnswer(c, d)
    \/ \E c \in Conns : \E d \in CandidateEnvelopes : SendCandidateRequest(c, d)
    \/ \E c \in Conns : \E d \in LeaveEnvelopes : Leave(c, d)
    \/ \E c \in Conns : \E d \in BusyEnvelopes : Busy(c, d)
    \/ \E c \in Conns : \E d \in WantToCallEnvelopes : WantToCall(c, d)
    \/ \E c \in Conns : \E d \in ReadyEnvelopes : HandleReady(c, d)
    \/ \E c \in Conns : \E d \in QuitEnvelopes : HandleQuit(c, d)
    \/ \E c \in Conns : \E d \in PingEnvelopes : ClientPing(c, d)
    \/ \E c \in Conns : \E d \in OtherEnvelopes : Unrecognized(c, d)
    \/ \E c \in Conns : Resume(c)
    \/ \E c \in Conns : Disconnect(c)

Spec == Init /\ [][Next]_vars

\* the same server when handlers interleave: while one connection's handler is
\* suspended in an awaited send, the event loop may complete another
\* connection's receive_json (serial = FALSE lifts the restriction of AtReceive)
ConcurrentInit ==
    /\ active_connections = [u \in Names |-> Absent]
    /\ online_users = [u \in Names |-> Absent]
    /\ name = [c \in Conns |-> Unset]
    /\ otherName = [c \in Conns |-> Unset]
    /\ client_state = [c \in Conns |-> CONNECTED]
    /\ pc = [c \in Conns |-> "recv"]
    /\ username = [c \in Conns |-> Missing]
    /\ conn = [c \in Conns |-> Absent]
    /\ sent = <<>>
    /\ dispatched = 0
    /\ serial = FALSE

ConcurrentSpec == ConcurrentInit /\ [][Next]_vars

\* ================================================================ claims
\* the session registered under username u, if any
Session(u) == active_connections[u]

Registered(u) == Session(u) # Absent

\* the peerName of u's session; None when u has no session
PeerNameOf(u) == IF Registered(u) THEN otherName[Session(u)] ELSE None

\* the presence entry of u
StatusOf(u) == online_users[u]

\* u is registered and the registered session's own username is u
OwnSession(u) == Registered(u) /\ name[Session(u)] = u

\* C1: in every state reached after an operation completes, for any two
\* registered sessions A and B, A's peerName = B implies B's peerName = A
\* (stated for sessions registered under their own username).
C1_PeerNameSymmetric ==
    Quiescent =>
        \A a, b \in Names :
            OwnSession(a) /\ OwnSession(b) /\ PeerNameOf(a) = b => PeerNameOf(b) = a

\* C2: for every username with a presence entry, status busy implies that the
\* user's session has a peerName, and status online implies that it has none.
C2_StatusMatchesPeerName ==
    Quiescent =>
        \A u \in Names :
            /\ StatusOf(u) = "busy" => PeerNameOf(u) # None
            /\ StatusOf(u) = "online" => PeerNameOf(u) = None

\* C3: after every completed operation the usernames with a registry entry
\* are exactly the usernames with a presence entry.
C3_RegistryMatchesPresence ==
    Quiescent =>
        {u \in Names : Registered(u)} = {u \in Names : StatusOf(u) # Absent}

\* C4: once a logged-in session's transport has disconnected, no registry entry
\* maps to that session, and its username keeps a presence entry only if the
\* name is registered (to a session that logged in afterwards).
C4_DisconnectRemoves ==
    \A c \in Conns :
        pc[c] = "closed" /\ name[c] # Unset =>
            /\ \A u \in Names : Session(u) # c
            /\ (StatusOf(name[c]) # Absent => Registered(name[c]))

Note(by, to, msg) == [by |-> by, to |-> to, msg |-> msg]

\* what reaches connection `to`: the message if its channel is open, else nothing
IfOpen(by, to, msg) ==
    IF client_state[to] = CONNECTED THEN <<Note(by, to, msg)>> ELSE <<>>

\* the envelope {"type": "login", "name": u}
LoginEnvelope(u) == [type |-> "login", name |-> u, payload |-> Missing]

\* C5: a login naming a username that already has a session is answered with
\* server_login success false and changes no registry, presence, username or
\* peerName; and a registered username is never handed to another session
\* while it is registered.
C5_DuplicateLoginRejected ==
    [][/\ \A c \in Conns, u \in Names :
              pc[c] = "recv" /\ Registered(u) /\ LoginUser(c, LoginEnvelope(u))
              => /\ UNCHANGED registry
                 /\ pc'[c] = "recv"
                 /\ sent' = <<Note(c, c, [type |-> "server_login", success |-> FALSE])>>
       /\ \A u \in Names :
              Registered(u) => active_connections'[u] \in {active_connections[u], Absent}
      ]_vars

\* C5 witness: a login was just refused while another session holds a name
C5_Witness ==
    \E c \in Conns :
        /\ sent = <<Note(c, c, [type |-> "server_login", success |-> FALSE])>>
        /\ \E u \in Names : Registered(u) /\ Session(u) # c

\* C6: when registered session A (connection c) sends ready naming a registered
\* B, the step leaves status[A] = status[B] = busy, A's peerName = B and B's
\* peerName = A, B's session is sent server_userready carrying A, and the next
\* step sends A server_userready carrying B (a send to a closed channel is
\* dropped).
C6_ReadyPairsBoth ==
    [][\A c \in Conns :
         /\ ( /\ pc[c] = "recv"
              /\ pc'[c] = "ready_notify_self"
              /\ name[c] # Unset
              /\ Session(name[c]) = c
              /\ Registered(username'[c])
            ) => LET A == name[c]
                     B == username'[c]
                     k == Session(B)
                 IN /\ online_users'[A] = "busy"
                    /\ online_users'[B] = "busy"
                    /\ otherName'[active_connections'[A]] = B
                    /\ otherName'[active_connections'[B]] = A
                    /\ UNCHANGED <<active_connections, name>>
                    /\ sent' = IfOpen(c, k, [type |-> "server_userready",
                                             success |-> TRUE, peername |-> A])
         /\ ( /\ pc[c] = "ready_notify_self"
              /\ pc'[c] = "update_users_list"
              /\ name[c] # Unset
              /\ Session(name[c]) = c
            ) => /\ sent' = sent \o <<Note(c, c, [type |-> "server_userready",
                                                   success |-> TRUE,
                                                   peername |-> username[c]])>>
                 /\ UNCHANGED registry
      ]_vars

\* connection c is about to commit a leave naming its paired peer
LeavingPaired(c) ==
    /\ pc[c] = "leave_commit"
    /\ name[c] # Unset
    /\ Session(name[c]) = c
    /\ Registered(username[c])
    /\ Session(username[c]) = conn[c]
    /\ otherName[c] = username[c]
    /\ otherName[conn[c]] = name[c]

\* the presence list as the next state has it
UserListNext ==
    {<<u, online_users'[u]>> : u \in {n \in Names : online_users'[n] # Absent}}

\* leave between a paired A and B: both online, no peerName, both notified
\* (if their channel is open), and the snapshot sent to every registered session
LeaveResetsBoth ==
    \A c \in Conns :
        LeavingPaired(c) /\ pc'[c] = "recv" =>
            LET A == name[c]
                B == username[c]
                k == conn[c]
                notices == IfOpen(c, k, [type |-> "server_userwanttoleave"])
                           \o <<Note(c, c, [type |-> "server_userwanttoleave"])>>
            IN /\ online_users'[A] = "online"
               /\ online_users'[B] = "online"
               /\ otherName'[c] = None
               /\ otherName'[k] = None
               /\ UNCHANGED <<active_connections, name>>
               /\ Len(sent') >= Len(notices)
               /\ SubSeq(sent', 1, Len(notices)) = notices
               /\ \A x \in Conns :
                      (\E u \in Names : Session(u) = x) /\ client_state[x] = CONNECTED
                      => \E i \in (Len(notices) + 1)..Len(sent') :
                             sent'[i] = Note(c, x, [type |-> "server_userlist",
                                                    name |-> UserListNext])

\* a ready that pairs two distinct sessions starts from both online and unpaired
ReadyStartsUnpaired ==
    \A c \in Conns :
        ( /\ pc[c] = "recv"
          /\ pc'[c] = "ready_notify_self"
          /\ name[c] # Unset
          /\ Session(name[c]) = c
          /\ OwnSession(username'[c])
          /\ username'[c] # name[c]
        ) => /\ StatusOf(name[c]) = "online"
             /\ StatusOf(username'[c]) = "online"
             /\ PeerNameOf(name[c]) = None
             /\ PeerNameOf(username'[c]) = None

\* C7: leave between a paired A and B (A sends leave naming B) leaves both
\* online with no peerName, sends both server_userwanttoleave and broadcasts a
\* snapshot, and that is the state that held before the ready that paired them:
\* every ready that pairs two sessions starts from both online and unpaired.
C7_LeaveInvertsReady == [][LeaveResetsBoth /\ ReadyStartsUnpaired]_vars

\* C8: quit by session S removes S's own registry entry and S's own presence
\* entry and nothing else, whatever name the quit message carries.
C8_QuitRemovesOnlySelf ==
    [][\A c \in Conns, u \in Names :
           /\ name[c] # Unset
           /\ Session(name[c]) = c
           /\ Receive(c, [type |-> "quit", name |-> u, payload |-> Missing])
           => /\ active_connections' = [active_connections EXCEPT ![name[c]] = Absent]
              /\ online_users' = [online_users EXCEPT ![name[c]] = Absent]
      ]_vars

\* a known type that lacks a field its handler reads
LacksRequiredField(d) ==
    /\ d.type \in ClientTypes \ {"clientping"}
    /\ \/ d.name = Missing
       \/ d.type \in {"offer", "answer", "candidate"} /\ d.payload = Missing

\* C9: a known message type that lacks a required field gets an error reply,
\* changes no registry, peerName or presence state, and leaves the connection
\* in its processing loop.
C9_MalformedRecovered ==
    [][\A c \in Conns, d \in Envelopes :
           LacksRequiredField(d) /\ Receive(c, d)
           => /\ UNCHANGED registry
              /\ pc'[c] = "recv"
              /\ Len(sent') = 1
              /\ sent'[1].to = c
              /\ sent'[1].msg.type = "server_error"
      ]_vars

\* C10: an envelope whose type is none of the ten client types, or that has no
\* type, gets exactly one server_error, changes no state, and leaves the
\* connection in its processing loop.
C10_UnknownTypeRecovered ==
    [][\A c \in Conns, d \in Envelopes :
           d.type \notin ClientTypes /\ Receive(c, d)
           => /\ UNCHANGED registry
              /\ pc'[c] = "recv"
              /\ Len(sent') = 1
              /\ sent'[1].to = c
              /\ sent'[1].msg.type = "server_error"
      ]_vars

\* the snapshot message as the next state's presence map has it
SnapshotNext == [type |-> "server_userlist", name |-> UserListNext]

\* every session that is registered and open after the step is sent the snapshot
SnapshotBroadcastBy(c) ==
    \A x \in Conns :
        (\E u \in Names : active_connections'[u] = x) /\ client_state'[x] = CONNECTED
        => \E i \in 1..Len(sent') : sent'[i] = Note(c, x, SnapshotNext)

\* no snapshot among the messages of the step
NoSnapshot == \A i \in 1..Len(sent') : sent'[i].msg.type # "server_userlist"

\* connection c holds the registry entry of its own username
LoggedIn(c) == name[c] # Unset /\ Session(name[c]) = c

\* the envelopes of the five relay operations
RelayEnvelopes ==
    {d \in Envelopes :
        d.type \in {"offer", "answer", "candidate", "busy", "want_to_call"}}

\* C11: the snapshot of the presence map goes to every registered session at
\* the end of each successful login, ready, leave, quit and disconnect, and no
\* snapshot is sent by offer, answer, candidate, busy or want_to_call.
C11_SnapshotAfterEachChange ==
    [][\A c \in Conns :
         \* login and ready end in update_users_list
         /\ pc[c] = "update_users_list" /\ pc'[c] = "recv" => SnapshotBroadcastBy(c)
         /\ pc[c] = "leave_commit" /\ pc'[c] = "recv" => SnapshotBroadcastBy(c)
         /\ \A u \in Names :
                LoggedIn(c) /\ HandleQuit(c, [type |-> "quit", name |-> u, payload |-> Missing])
                => SnapshotBroadcastBy(c)
         /\ LoggedIn(c) /\ pc[c] = "recv" /\ pc'[c] = "closed" => SnapshotBroadcastBy(c)
         /\ \A d \in RelayEnvelopes : pc[c] = "recv" /\ Receive(c, d) => NoSnapshot
      ]_vars

\* the envelope {"type": "offer", "name": u, "offer": p}
OfferEnvelope(u, p) == [type |-> "offer", name |-> u, payload |-> p]

CandidateEnvelope(u, p) == [type |-> "candidate", name |-> u, payload |-> p]

WantToCallEnvelope(u) == [type |-> "want_to_call", name |-> u, payload |-> Missing]

\* C14: want_to_call(toName) sends exactly one reply to the caller and changes
\* no registry, peerName or presence state: server_nouser (success false) if
\* the target is absent, server_alreadyinroom success true if the target has a
\* peerName and its presence is busy, server_alreadyinroom success false in
\* every other case.
C14_WantToCallProbe ==
    [][\A c \in Conns, u \in Names :
           pc[c] = "recv" /\ WantToCall(c, WantToCallEnvelope(u))
           => /\ UNCHANGED registry
              /\ pc'[c] = "recv"
              /\ sent' =
                    IF ~Registered(u)
                    THEN <<Note(c, c, [type |-> "server_nouser", success |-> FALSE])>>
                    ELSE <<Note(c, c, [type |-> "server_alreadyinroom",
                                       success |-> (PeerNameOf(u) # None
                                                    /\ StatusOf(u) = "busy"),
                                       name |-> u])>>
      ]_vars

\* C14 witness: a caller was just told that a paired, busy target is in a room
C14_Witness ==
    \E c \in Conns, u \in Names :
        /\ Registered(u) /\ Session(u) # c
        /\ PeerNameOf(u) # None /\ StatusOf(u) = "busy"
        /\ sent = <<Note(c, c, [type |-> "server_alreadyinroom",
                                success |-> TRUE, name |-> u])>>

\* the usernames whose registry entry is connection c
RegistryEntriesOf(c) == {u \in Names : active_connections[u] = c}

\* C15: once a connection has logged in, its username never changes and it
\* holds exactly one registry entry, whatever it sends afterwards, further
\* logins under another name included.
C15_UsernameFixedAfterLogin ==
    [][\A c \in Conns :
           LoggedIn(c) /\ RegistryEntriesOf(c) = {name[c]}
           => /\ name'[c] = name[c]
              /\ {u \in Names : active_connections'[u] = c} \subseteq {name[c]}
      ]_vars

\* connection k's login under u is in flight: registered, snapshot not yet sent
LoginInFlight(k, u) ==
    /\ pc[k] = "update_users_list"
    /\ username[k] = u
    /\ name[k] = u
    /\ Session(u) = k

\* C16: when two connections send login with the same unregistered name and
\* their handlers interleave at the awaits, the first one dispatched is
\* registered under the name and is sent server_login success true; the other,
\* dispatched while the first is still in flight, is sent success false and the
\* name stays with the first.
C16_ConcurrentLoginOneWinner ==
    [][\A c \in Conns, u \in Names :
           pc[c] = "recv" /\ LoginUser(c, LoginEnvelope(u))
           => /\ ~Registered(u)
                 => /\ active_connections'[u] = c
                    /\ sent' = <<Note(c, c, [type |-> "server_login", success |-> TRUE])>>
              /\ \A k \in Conns \ {c} :
                     LoginInFlight(k, u)
                     => /\ UNCHANGED registry
                        /\ sent' = <<Note(c, c, [type |-> "server_login",
                                                 success |-> FALSE])>>
                        /\ pc'[c] = "recv"
                        /\ pc'[k] = pc[k]
      ]_vars

\* C16 witness: c was just refused the name while k's login, dispatched first,
\* is still in flight
C16_Witness ==
    \E c, k \in Conns, u \in Names :
        /\ c # k
        /\ LoginInFlight(k, u)
        /\ pc[c] = "recv"
        /\ \A v \in Names : Session(v) # c
        /\ sent = <<Note(c, c, [type |-> "server_login", success |-> FALSE])>>

\* a and b are two sessions, each holding the registry entry of its own
\* username and no other, and no third connection has a handler in flight
TwoSessions(a, b) ==
    /\ a # b
    /\ LoggedIn(a) /\ RegistryEntriesOf(a) = {name[a]}
    /\ LoggedIn(b) /\ RegistryEntriesOf(b) = {name[b]}
    /\ \A x \in Conns \ {a, b} : pc[x] \in {"recv", "closed", "crashed"}

\* a's leave naming u is suspended in one of its two notices
LeaveInFlight(a, u) ==
    pc[a] \in {"leave_notify_self", "leave_commit"} /\ username[a] = u

\* b's ready naming u is suspended in one of its sends (a login suspended in
\* update_users_list carries the connection's own name instead)
ReadyInFlight(b, u) ==
    pc[b] \in {"ready_notify_self", "update_users_list"}
    /\ username[b] = u /\ name[b] # u

\* both busy and each other's peerName, as the next state has it
BothBusyPairedNext(a, b) ==
    /\ online_users'[name[a]] = "busy" /\ online_users'[name[b]] = "busy"
    /\ otherName'[a] = name[b] /\ otherName'[b] = name[a]

\* both online with no peerName, as the next state has it
BothOnlineUnpairedNext(a, b) ==
    /\ online_users'[name[a]] = "online" /\ online_users'[name[b]] = "online"
    /\ otherName'[a] = None /\ otherName'[b] = None

\* C17: when A's leave naming B and B's ready naming A interleave at their
\* awaits with nothing else in flight, the ready's first step makes both busy
\* with each other as peerName, the leave's last step makes both online with
\* no peerName, and no other step of the two handlers touches status or
\* peerName: whichever of the two comes last decides the state found once both
\* have finished, and it is never a mixture.
C17_LeaveReadyNoMixture ==
    [][\A a, b \in Conns :
           TwoSessions(a, b)
           /\ (pc[a] = "recv" \/ LeaveInFlight(a, name[b]))
           /\ (pc[b] = "recv" \/ ReadyInFlight(b, name[a]))
           => \* the leave: lookup and first notice, second notice, commit
              /\ pc[a] = "recv" /\ pc'[a] = "leave_notify_self" /\ username'[a] = name[b]
                 => UNCHANGED registry /\ conn'[a] = b
              /\ pc[a] = "leave_notify_self" /\ pc'[a] # pc[a]
                 => pc'[a] = "leave_commit" /\ UNCHANGED registry
              /\ pc[a] = "leave_commit" /\ pc'[a] # pc[a]
                 => pc'[a] = "recv" /\ BothOnlineUnpairedNext(a, b)
              \* the ready: pairing and first notice, second notice, snapshot
              /\ pc[b] = "recv" /\ pc'[b] = "ready_notify_self" /\ username'[b] = name[a]
                 => BothBusyPairedNext(a, b)
              /\ ReadyInFlight(b, name[a]) /\ pc'[b] # pc[b]
                 => pc'[b] \in {"update_users_list", "recv"} /\ UNCHANGED registry
              \* neither handler moves the other
              /\ pc'[a] # pc[a] => pc'[b] = pc[b]
      ]_vars

\* C17 witness: B's ready was dispatched while A's leave was in flight; both
\* are busy and paired, and the leave is about to commit
C17_Witness ==
    \E a, b \in Conns :
        /\ TwoSessions(a, b)
        /\ pc[a] = "leave_commit" /\ username[a] = name[b] /\ conn[a] = b
        /\ ReadyInFlight(b, name[a])
        /\ StatusOf(name[a]) = "busy" /\ StatusOf(name[b]) = "busy"
        /\ otherName[a] = name[b] /\ otherName[b] = name[a]

\* C18: once B's quit has removed B's registry and presence entries, B has no
\* presence entry until a login with name B, also across the last step of
\* another session's leave naming B that looked B up before the quit.
C18_QuitStaysQuit ==
    [][\A a \in Conns, u \in Names :
           /\ pc[a] = "leave_commit" /\ pc'[a] # pc[a]
           /\ LoggedIn(a) /\ name[a] # u
           /\ username[a] = u /\ conn[a] # Absent
           /\ ~Registered(u) /\ StatusOf(u) = Absent
           => online_users'[u] = Absent
      ]_vars

\* C19: the peerName of every registered session is absent or names a
\* registered user (stated for sessions registered under their own username).
C19_PeerNameRegistered ==
    Quiescent =>
        \A u \in Names :
            OwnSession(u) /\ PeerNameOf(u) # None => Registered(PeerNameOf(u))

\* the envelopes of offer, ready, leave and quit
SessionEnvelopes ==
    {d \in Envelopes : d.type \in {"offer", "ready", "leave", "quit"}}

\* the registry stays as it is, and so do the status and peerName of every
\* user who is registered under their own username and has a presence entry
RegisteredUntouched ==
    /\ UNCHANGED active_connections
    /\ \A u \in Names :
           OwnSession(u) /\ StatusOf(u) # Absent
           => /\ online_users'[u] = online_users[u]
              /\ otherName'[Session(u)] = otherName[Session(u)]

\* C20: an offer, ready, leave or quit from a connection that never logged in
\* changes no registry entry and no registered user's status or peerName, in
\* any step of its handler.
C20_StrangerChangesNothing ==
    [][\A c \in Conns :
           name[c] = Unset
           => /\ \A d \in SessionEnvelopes :
                     pc[c] = "recv" /\ Receive(c, d) => RegisteredUntouched
              /\ pc[c] \in {"leave_notify_self", "leave_commit"} /\ pc'[c] # pc[c]
                 => RegisteredUntouched
      ]_vars

====
